---- MODULE Spec2Model ----
(***************************************************************************)
(* A model of the gosonett lexer (src/lexer/lexer.go).                     *)
(*                                                                         *)
(* The source text is a sequence of bytes (0..255).  Go indexes Source     *)
(* from 0; TLA+ sequences from 1, so Source[i] of the code is src[i + 1].  *)
(* A lexer object is a record; every method of the code is an operator     *)
(* from a lexer record to the lexer record it leaves behind (plus its      *)
(* return values).  A Go panic is recorded in the field `panic` and        *)
(* propagates through every caller.                                        *)
(***************************************************************************)
EXTENDS Integers, Naturals, Sequences, FiniteSets, TLC

VARIABLES Source, Tokens, Position, index, sourceLength, reachedEnd,
          op, ret, panicked, starts, at, char, frame

vars == <<Source, Tokens, Position, index, sourceLength, reachedEnd,
          op, ret, panicked, starts, at, char, frame>>

---------------------------------------------------------------------------
(* Bounds of the model.                                                    *)

\* longest source text of the general specification
MaxLen == 3
\* Tokenize and Lex are not called once Tokens holds this many tokens
MaxTokens == 4
\* longest source text of the specification of punctuation sources
MaxPunctLen == 1
\* longest source text of the specifications of comment and string sources
MaxTextLen == 4
\* longest source text over the identifier alphabet
MaxIdentLen == 3
\* most lexemes of a source put together from lexemes
MaxLexemes == 3

---------------------------------------------------------------------------
(* Characters.                                                             *)

EOF == 0

NoPanic == "none"
PanicIndex == "index out of range"
PanicNextChar == "Unhandled end of input looking for the next character"
PanicPeek == "Unhandled end of input peeking the next character"
PanicUnknown == "Unknown lexing character"

\* string(rune): the UTF-8 encoding of the code point r (r is a byte value
\* converted to a rune, so r < 256 and the encoding has one or two bytes).
RuneToString(r) ==
  IF r < 128 THEN <<r>> ELSE <<192 + (r \div 64), 128 + (r % 64)>>

\* a whitespace test that takes every byte up to the space, the sentinel
\* included
IsSpaceOrControl(r) == r <= 32 \/ r \in {133, 160}

\* unicode.IsSpace on a Latin-1 code point.
IsSpace(r) == r \in {9, 10, 11, 12, 13, 32, 133, 160}

\* unicode.IsUpper / unicode.IsLower / unicode.IsNumber on a Latin-1 code point.
IsUpper(r) == r \in (65..90) \cup (192..214) \cup (216..222)

IsLower(r) == r \in (97..122) \cup {181} \cup (223..246) \cup (248..255)

IsNumber(r) == r \in (48..57) \cup {178, 179, 185, 188, 189, 190}

\* a first-character test that also takes the digits
isIdentifierFirstOrNumber(r) == IsUpper(r) \/ IsLower(r) \/ r = 95 \/ IsNumber(r)

isIdentifierFirst(r) == IsUpper(r) \/ IsLower(r) \/ r = 95

isIdentifier(r) == isIdentifierFirst(r) \/ IsNumber(r)

---------------------------------------------------------------------------
(* Tokens.                                                                 *)

NewToken(type, value) == [Type |-> type, Value |-> value]

\* the zero value of token.Token
ZeroToken == [Type |-> "", Value |-> <<>>]

EOFLexeme == <<40, 69, 79, 70, 41>>

\* the one-character cases of the switch in Tokenize ('/' is handled apart)
PunctKind ==
  123 :> "LBRACE" @@ 125 :> "RBRACE" @@ 91 :> "LBRACKET" @@ 93 :> "RBRACKET" @@
  44 :> "COMMA" @@ 46 :> "DOT" @@ 40 :> "LPAREN" @@ 41 :> "RPAREN" @@
  59 :> "SEMICOLON" @@ 33 :> "BANG" @@ 36 :> "DOLLAR" @@ 58 :> "COLON" @@
  126 :> "TILDE" @@ 43 :> "PLUS" @@ 45 :> "MINUS" @@ 38 :> "AMP" @@
  124 :> "PIPE" @@ 94 :> "CARET" @@ 61 :> "ASSIGN" @@ 60 :> "LANGLE" @@
  62 :> "RANGLE" @@ 42 :> "STAR" @@ 37 :> "PERC"

\* the keyword table of the token package
Keywords ==
  <<97,115,115,101,114,116>> :> "ASSERT" @@
  <<101,114,114,111,114>> :> "ERROR" @@
  <<105,102>> :> "IF" @@
  <<116,104,101,110>> :> "THEN" @@
  <<101,108,115,101>> :> "ELSE" @@
  <<116,114,117,101>> :> "TRUE" @@
  <<102,97,108,115,101>> :> "FALSE" @@
  <<102,111,114>> :> "FOR" @@
  <<102,117,110,99,116,105,111,110>> :> "FUNCTION" @@
  <<105,109,112,111,114,116>> :> "IMPORT" @@
  <<105,109,112,111,114,116,115,116,114>> :> "IMPORTSTR" @@
  <<116,97,105,108,115,116,114,105,99,116>> :> "TAILSTRICT" @@
  <<105,110>> :> "IN" @@
  <<108,111,99,97,108>> :> "LOCAL" @@
  <<110,117,108,108>> :> "NULL" @@
  <<115,101,108,102>> :> "SELF" @@
  <<115,117,112,101,114>> :> "SUPER"

GetKeywordKind(ident) ==
  IF ident \in DOMAIN Keywords THEN Keywords[ident] ELSE "IDENT"

-------------------------------------------------------------------------------------------------------------------------------------------------
(* The lexer object and the cursor primitives.                             *)
(*                                                                         *)
(* A local variable of the code that is read more than once is bound by    *)
(* Only({ body : x \in {value} }), which is LET x == value IN body with    *)
(* the value computed once.                                                *)

Only(S) == CHOOSE v \in S : TRUE

\* New(source).  starts, at and char are history fields: the index and the
\* character of the last dispatch of Tokenize (char := l.CurrentChar()) and,
\* for each element of Tokens, the index of the dispatch that produced it.
New(source) ==
  [Tokens |-> <<>>, Position |-> [line |-> 0, lineChar |-> 0], index |-> 0,
   sourceLength |-> Len(source), reachedEnd |-> FALSE,
   panic |-> NoPanic, starts |-> <<>>, at |-> -1, char |-> -1]

Panic(l, what) == IF l.panic = NoPanic THEN [l EXCEPT !.panic = what] ELSE l

willOverflow(l) == l.index + 1 >= l.sourceLength

\* a CurrentChar that reads the source without looking at reachedEnd
CurrentCharUnguarded(src, l) ==
  IF l.index >= 0 /\ l.index < Len(src)
  THEN [c |-> src[l.index + 1], ok |-> TRUE]
  ELSE [c |-> EOF, ok |-> FALSE]

\* result: ok = FALSE when Source[l.index] is out of range (a runtime panic)
CurrentChar(src, l) ==
  IF l.reachedEnd THEN [c |-> EOF, ok |-> TRUE]
  ELSE IF l.index >= 0 /\ l.index < Len(src)
       THEN [c |-> src[l.index + 1], ok |-> TRUE]
       ELSE [c |-> EOF, ok |-> FALSE]

\* an invalidOverflow that reports the end of input the first time already
invalidOverflowAtOnce(l) ==
  IF willOverflow(l)
  THEN [l |-> [l EXCEPT !.reachedEnd = TRUE], r |-> TRUE]
  ELSE [l |-> l, r |-> FALSE]

invalidOverflow(l) ==
  IF willOverflow(l)
  THEN IF l.reachedEnd = FALSE
       THEN [l |-> [l EXCEPT !.reachedEnd = TRUE], r |-> FALSE]
       ELSE [l |-> l, r |-> TRUE]
  ELSE [l |-> l, r |-> FALSE]

NextLine(lp) == [line |-> lp.line + 1, lineChar |-> 0]

PosNextChar(lp) == [lp EXCEPT !.lineChar = @ + 1]

NextChar(src, l) ==
  Only({
    IF io.r THEN [l |-> io.l, char |-> EOF, err |-> TRUE]
    ELSE Only({
      IF ~cc.ok THEN [l |-> Panic(io.l, PanicIndex), char |-> EOF, err |-> FALSE]
      ELSE [l |-> [io.l EXCEPT !.index = @ + 1,
                               !.Position = IF cc.c = 10 THEN NextLine(@)
                                            ELSE PosNextChar(@)],
            char |-> cc.c, err |-> FALSE]
      : cc \in {CurrentChar(src, io.l)} })
    : io \in {invalidOverflow(l)} })

Peek(src, l) ==
  Only({
    IF io.r THEN [l |-> io.l, char |-> EOF, err |-> TRUE]
    ELSE IF io.l.index + 1 >= 0 /\ io.l.index + 1 < Len(src)
         THEN [l |-> io.l, char |-> src[io.l.index + 2], err |-> FALSE]
         ELSE [l |-> Panic(io.l, PanicIndex), char |-> EOF, err |-> FALSE]
    : io \in {invalidOverflow(l)} })

---------------------------------------------------------------------------
(* The scanners.                                                           *)

RECURSIVE eatWhitespace(_, _)
eatWhitespace(src, l) ==
  Only({
    IF ~cc.ok THEN Panic(l, PanicIndex)
    ELSE IF IsSpace(cc.c)
         THEN Only({eatWhitespace(src, n) : n \in {NextChar(src, l).l}})
         ELSE l
    : cc \in {CurrentChar(src, l)} })

\* an eatUntil that stops at the end of input and returns what it has eaten
RECURSIVE eatUntilLoopTruncating(_, _, _, _)
eatUntilLoopTruncating(src, l, untilChar, eatenStr) ==
  Only({
    IF ~cc.ok THEN [l |-> Panic(l, PanicIndex), str |-> eatenStr]
    ELSE IF cc.c = untilChar THEN [l |-> l, str |-> eatenStr]
    ELSE Only({
      IF nc.err THEN [l |-> nc.l, str |-> eatenStr]
      ELSE IF nc.l.panic # NoPanic THEN [l |-> nc.l, str |-> eatenStr]
      ELSE Only({eatUntilLoopTruncating(src, nc.l, untilChar, eaten)
                 : eaten \in {eatenStr \o RuneToString(nc.char)}})
      : nc \in {NextChar(src, l)} })
    : cc \in {CurrentChar(src, l)} })

\* the loop of eatUntil, eatenStr being the string eaten so far
RECURSIVE eatUntilLoop(_, _, _, _)
eatUntilLoop(src, l, untilChar, eatenStr) ==
  Only({
    IF ~cc.ok THEN [l |-> Panic(l, PanicIndex), str |-> eatenStr]
    ELSE IF cc.c = untilChar THEN [l |-> l, str |-> eatenStr]
    ELSE Only({
      IF nc.err THEN [l |-> Panic(nc.l, PanicNextChar), str |-> eatenStr]
      ELSE IF nc.l.panic # NoPanic THEN [l |-> nc.l, str |-> eatenStr]
      ELSE Only({eatUntilLoop(src, nc.l, untilChar, eaten)
                 : eaten \in {eatenStr \o RuneToString(nc.char)}})
      : nc \in {NextChar(src, l)} })
    : cc \in {CurrentChar(src, l)} })

eatUntil(src, l, untilChar) == eatUntilLoop(src, l, untilChar, <<>>)

eatUntilAfter(src, l, untilChar) ==
  Only({
    IF e.l.panic # NoPanic THEN e
    ELSE [l |-> NextChar(src, e.l).l, str |-> e.str]
    : e \in {eatUntil(src, l, untilChar)} })

eatCurrentLine(src, l) == eatUntilAfter(src, l, 10).l

\* the loop of lexIdentifier
RECURSIVE lexIdentifierLoop(_, _)
lexIdentifierLoop(src, l) ==
  Only({
    IF ~cc.ok THEN Panic(l, PanicIndex)
    ELSE IF isIdentifier(cc.c)
    THEN Only({
      IF nc.err THEN Panic(nc.l, PanicNextChar)
      ELSE IF nc.l.panic # NoPanic THEN nc.l
      ELSE IF nc.char = EOF THEN nc.l
      ELSE lexIdentifierLoop(src, nc.l)
      : nc \in {NextChar(src, l)} })
    ELSE l
    : cc \in {CurrentChar(src, l)} })

\* a lexIdentifier that takes the lexeme after the cursor was moved back
lexIdentifierSliceAfterBacktrack(src, l) ==
  Only({
    IF s.panic # NoPanic THEN [l |-> s, tok |-> ZeroToken]
    ELSE Only({
      [l |-> [s EXCEPT !.index = @ - 1],
       tok |-> [Type |-> GetKeywordKind(ident), Value |-> ident]]
      : ident \in {SubSeq(src, startIndex + 1, s.index - 1)} })
    : startIndex \in {l.index}, s \in {lexIdentifierLoop(src, l)} })

lexIdentifier(src, l) ==
  Only({
    IF s.panic # NoPanic THEN [l |-> s, tok |-> ZeroToken]
    ELSE Only({
      [l |-> [s EXCEPT !.index = @ - 1],
       tok |-> [Type |-> GetKeywordKind(ident), Value |-> ident]]
      : ident \in {SubSeq(src, startIndex + 1, s.index)} })
    : startIndex \in {l.index}, s \in {lexIdentifierLoop(src, l)} })

---------------------------------------------------------------------------
(* Tokenize and Lex.                                                       *)

\* an end of Tokenize that returns the token without storing it
EmitWithoutAppend(src, l, tok) ==
  Only({
    [l |-> NextChar(src, stored).l, tok |-> tok]
    : stored \in {[l EXCEPT !.starts = Append(@, l.at)]} })

\* the end of Tokenize: store the token, advance to the next byte, return it
Emit(src, l, tok) ==
  Only({
    [l |-> NextChar(src, stored).l, tok |-> tok]
    : stored \in {[l EXCEPT !.Tokens = Append(@, tok), !.starts = Append(@, l.at)]} })

Failed(l) == [l |-> l, tok |-> ZeroToken]

\* a comment test that takes the opener of a multi-line comment as well
opensSingleLineCommentOrBlock(peekedChar) == peekedChar \in {47, 42}

\* the test made on the character after a '/'
opensSingleLineComment(peekedChar) == peekedChar = 47

\* the switch of Tokenize, d being the lexer after eatWhitespace and char
\* the value of l.CurrentChar()
RECURSIVE Tokenize(_, _)
Dispatch(src, d, c) ==
  IF c = EOF THEN Emit(src, d, NewToken("EOF", EOFLexeme))
  ELSE IF c \in DOMAIN PunctKind
       THEN Emit(src, d, NewToken(PunctKind[c], RuneToString(c)))
  ELSE IF c = 47
       THEN Only({
              IF pk.err THEN Failed(Panic(pk.l, PanicPeek))
              ELSE IF pk.l.panic # NoPanic THEN Failed(pk.l)
              ELSE IF opensSingleLineComment(pk.char)
                   THEN Only({
                          IF e.panic # NoPanic THEN Failed(e) ELSE Tokenize(src, e)
                          : e \in {eatCurrentLine(src, pk.l)} })
                   ELSE Emit(src, pk.l, NewToken("SLASH", RuneToString(c)))
              : pk \in {Peek(src, d)} })
  ELSE IF c = 35
       THEN Only({
              IF e.panic # NoPanic THEN Failed(e) ELSE Tokenize(src, e)
              : e \in {eatCurrentLine(src, d)} })
  ELSE IF c \in {34, 39}
       THEN Only({
              Only({
                IF s.l.panic # NoPanic THEN Failed(s.l)
                ELSE Emit(src, s.l, NewToken("STRING", s.str))
                : s \in {eatUntil(src, n, c)} })
              : n \in {NextChar(src, d).l} })
  ELSE IF isIdentifierFirst(c)
       THEN Only({
              IF li.l.panic # NoPanic THEN Failed(li.l)
              ELSE Emit(src, li.l, li.tok)
              : li \in {lexIdentifier(src, d)} })
  ELSE Failed(Panic(d, PanicUnknown))

Tokenize(src, l) ==
  Only({
    IF w.panic # NoPanic THEN Failed(w)
    ELSE Only({
      IF ~cc.ok THEN Failed(Panic(w, PanicIndex))
      ELSE Only({Dispatch(src, d, cc.c)
                 : d \in {[w EXCEPT !.at = w.index, !.char = cc.c]}})
      : cc \in {CurrentChar(src, w)} })
    : w \in {eatWhitespace(src, l)} })

\* toks is the returned slice; returned is FALSE when Lex panicked
RECURSIVE Lex(_, _)
Lex(src, l) ==
  Only({
    IF r.l.panic # NoPanic THEN [l |-> r.l, toks |-> <<>>, returned |-> FALSE]
    ELSE IF r.tok.Type # "EOF" THEN Lex(src, r.l)
    ELSE [l |-> r.l, toks |-> r.l.Tokens, returned |-> TRUE]
    : r \in {Tokenize(src, l)} })

\* Lex on a new lexer
LexNew(src) == Only({Lex(src, l) : l \in {New(src)}})

---------------------------------------------------------------------------
(* The state machine: one lexer object and the calls made on it.  op is    *)
(* the last call, ret what it returned; panicked is the panic that ended   *)
(* the program, after which no call is made.                               *)

\* the lexer object held in the variables
Self ==
  [Tokens |-> Tokens, Position |-> Position, index |-> index,
   sourceLength |-> sourceLength, reachedEnd |-> reachedEnd,
   panic |-> panicked, starts |-> starts, at |-> at, char |-> char]

StoreLexer(l) ==
  /\ Tokens' = l.Tokens
  /\ Position' = l.Position
  /\ index' = l.index
  /\ sourceLength' = l.sourceLength
  /\ reachedEnd' = l.reachedEnd
  /\ panicked' = l.panic
  /\ starts' = l.starts
  /\ at' = l.at
  /\ char' = l.char
  /\ UNCHANGED Source

\* the locals of a Lex call that runs step by step: where it is (pc), the
\* arguments and locals of eatUntil and lexIdentifier, and the token made
NoFrame ==
  [pc |-> "idle", untilChar |-> -1, then |-> "", eatenStr |-> <<>>,
   startIndex |-> -1, tok |-> ZeroToken]

\* a call made as one step has no frame
Store(l) ==
  /\ StoreLexer(l)
  /\ UNCHANGED frame

NoRet == [tok |-> ZeroToken, toks |-> <<>>, c |-> -1, err |-> FALSE, returned |-> FALSE]

Seqs(A, n) == UNION {[1..k -> A] : k \in 0..n}

InitWith(sources) ==
  /\ Source \in sources
  /\ \E l \in {New(Source)} :
       /\ Tokens = l.Tokens
       /\ Position = l.Position
       /\ index = l.index
       /\ sourceLength = l.sourceLength
       /\ reachedEnd = l.reachedEnd
       /\ panicked = l.panic
       /\ starts = l.starts
       /\ at = l.at
       /\ char = l.char
  /\ op = "New"
  /\ ret = NoRet
  /\ frame = NoFrame

DoCurrentChar ==
  /\ panicked = NoPanic
  /\ \E l \in {Self} : \E cc \in {CurrentChar(Source, l)} :
       /\ Store(IF cc.ok THEN l ELSE Panic(l, PanicIndex))
       /\ ret' = IF cc.ok THEN [NoRet EXCEPT !.c = cc.c, !.returned = TRUE] ELSE NoRet
  /\ op' = "CurrentChar"

DoNextChar ==
  /\ panicked = NoPanic
  /\ \E l \in {Self} : \E nc \in {NextChar(Source, l)} :
       /\ Store(nc.l)
       /\ ret' = IF nc.l.panic = NoPanic
                 THEN [NoRet EXCEPT !.c = nc.char, !.err = nc.err, !.returned = TRUE]
                 ELSE NoRet
  /\ op' = "NextChar"

DoPeek ==
  /\ panicked = NoPanic
  /\ \E l \in {Self} : \E pk \in {Peek(Source, l)} :
       /\ Store(pk.l)
       /\ ret' = IF pk.l.panic = NoPanic
                 THEN [NoRet EXCEPT !.c = pk.char, !.err = pk.err, !.returned = TRUE]
                 ELSE NoRet
  /\ op' = "Peek"

DoTokenize ==
  /\ panicked = NoPanic
  /\ Len(Tokens) < MaxTokens
  /\ \E l \in {Self} : \E r \in {Tokenize(Source, l)} :
       /\ Store(r.l)
       /\ ret' = IF r.l.panic = NoPanic
                 THEN [NoRet EXCEPT !.tok = r.tok, !.returned = TRUE]
                 ELSE NoRet
  /\ op' = "Tokenize"

DoLex ==
  /\ panicked = NoPanic
  /\ Len(Tokens) < MaxTokens
  /\ \E l \in {Self} : \E r \in {Lex(Source, l)} :
       /\ Store(r.l)
       /\ ret' = IF r.returned
                 THEN [NoRet EXCEPT !.toks = r.toks, !.returned = TRUE]
                 ELSE NoRet
  /\ op' = "Lex"

\* The general specification: every source over a small alphabet that has a
\* character of each class, and every order of calls.
\*   NUL " # ' * / 1 a newline
Alphabet == {0, 34, 35, 39, 42, 47, 49, 97, 10}

Init == InitWith(Seqs(Alphabet, MaxLen))

Next == DoCurrentChar \/ DoNextChar \/ DoPeek \/ DoTokenize \/ DoLex

Spec == Init /\ [][Next]_vars

\* Sources made of the punctuation and operator characters only.
PunctChars == DOMAIN PunctKind \cup {47}

InitPunct == InitWith(Seqs(PunctChars, MaxPunctLen) \ {<<>>})

SpecPunct == InitPunct /\ [][Next]_vars

\* Sources with comments: ! # / a and newline.
CommentAlphabet == {33, 35, 47, 97, 10}

InitComment == InitWith(Seqs(CommentAlphabet, MaxTextLen))

SpecComment == InitComment /\ [][Next]_vars

\* Sources with string literals: " ' , a and the byte 0xC3.
StringAlphabet == {34, 39, 44, 97, 195}

InitString == InitWith(Seqs(StringAlphabet, MaxTextLen))

SpecString == InitString /\ [][Next]_vars

\* Sources with identifiers and keywords: every text over I f i 1 _ . and
\* space, and every reserved word alone, with its first letter in upper
\* case, and with one more character before or after it.
IdentAlphabet == {73, 102, 105, 49, 95, 46, 32}

KeywordSources ==
  UNION {{kw, [kw EXCEPT ![1] = @ - 32]}
           \cup {kw \o <<c>> : c \in IdentAlphabet}
           \cup {<<c>> \o kw : c \in IdentAlphabet}
         : kw \in DOMAIN Keywords}

InitIdent == InitWith(Seqs(IdentAlphabet, MaxIdentLen) \cup KeywordSources)

SpecIdent == InitIdent /\ [][Next]_vars

\* Sources that are concatenations of well-formed lexemes.  A lexeme is its
\* text, the token the language gives it, and whether it is an identifier
\* or a keyword:   : . , /   a if   "!" 'a'
Lexemes ==
  { [text |-> <<58>>, tok |-> NewToken("COLON", <<58>>), word |-> FALSE],
    [text |-> <<46>>, tok |-> NewToken("DOT", <<46>>), word |-> FALSE],
    [text |-> <<44>>, tok |-> NewToken("COMMA", <<44>>), word |-> FALSE],
    [text |-> <<47>>, tok |-> NewToken("SLASH", <<47>>), word |-> FALSE],
    [text |-> <<97>>, tok |-> NewToken("IDENT", <<97>>), word |-> TRUE],
    [text |-> <<105, 102>>, tok |-> NewToken("IF", <<105, 102>>), word |-> TRUE],
    [text |-> <<34, 33, 34>>, tok |-> NewToken("STRING", <<33>>), word |-> FALSE],
    [text |-> <<39, 97, 39>>, tok |-> NewToken("STRING", <<97>>), word |-> FALSE] }

\* the source text of a sequence of lexemes: their texts in order, with one
\* space between two adjacent identifiers or keywords and nowhere else
RECURSIVE Render(_)
Render(ls) ==
  IF ls = <<>> THEN <<>>
  ELSE IF Len(ls) >= 2 /\ ls[1].word /\ ls[2].word
       THEN ls[1].text \o <<32>> \o Render(Tail(ls))
       ELSE ls[1].text \o Render(Tail(ls))

LexemeSeqs == Seqs(Lexemes, MaxLexemes) \ {<<>>}

InitLexemes == InitWith({Render(ls) : ls \in LexemeSeqs})

SpecLexemes == InitLexemes /\ [][Next]_vars

---------------------------------------------------------------------------
(* Lex on a new lexer, one loop iteration per step.  frame.pc is the place *)
(* of the call: in the loop of eatWhitespace, at the switch of Tokenize,   *)
(* in the loop of eatUntil or of lexIdentifier, at the append that ends    *)
(* Tokenize; "returned" and "panicked" are the two ends of the call.       *)

\* the lexer becomes l and the call goes on at f, or ends if l panicked
Go(l, f) ==
  /\ StoreLexer(l)
  /\ frame' = IF l.panic # NoPanic THEN [f EXCEPT !.pc = "panicked"] ELSE f
  /\ op' = "Lex"
  /\ ret' = IF l.panic = NoPanic /\ f.pc = "returned"
            THEN [NoRet EXCEPT !.toks = l.Tokens, !.returned = TRUE]
            ELSE NoRet

\* the switch made tok: go to the append
Ready(tok) == [frame EXCEPT !.pc = "store", !.tok = tok]

\* enter eatUntil(untilChar); then is what follows it: the STRING token, or
\* the NextChar of eatUntilAfter and the recursive Tokenize call
Eating(untilChar, then) ==
  [frame EXCEPT !.pc = "eatUntil", !.untilChar = untilChar, !.then = then,
                !.eatenStr = <<>>]

\* Lex calls Tokenize, which calls eatWhitespace
RunLex ==
  /\ frame.pc = "idle"
  /\ Go(Self, [frame EXCEPT !.pc = "eatWhitespace"])

\* one test of the loop of eatWhitespace, and its body; after the loop the
\* CurrentChar of Tokenize
RunEatWhitespace ==
  /\ frame.pc = "eatWhitespace"
  /\ \E l \in {Self} : \E cc \in {CurrentChar(Source, l)} :
       IF ~cc.ok THEN Go(Panic(l, PanicIndex), frame)
       ELSE IF IsSpace(cc.c) THEN Go(NextChar(Source, l).l, frame)
       ELSE Go([l EXCEPT !.at = l.index, !.char = cc.c],
               [frame EXCEPT !.pc = "switch"])

\* the switch of Tokenize
RunSwitch ==
  /\ frame.pc = "switch"
  /\ \E l \in {Self} : \E c \in {char} :
       IF c = EOF THEN Go(l, Ready(NewToken("EOF", EOFLexeme)))
       ELSE IF c \in DOMAIN PunctKind
            THEN Go(l, Ready(NewToken(PunctKind[c], RuneToString(c))))
       ELSE IF c = 47
            THEN \E pk \in {Peek(Source, l)} :
                   IF pk.err THEN Go(Panic(pk.l, PanicPeek), frame)
                   ELSE IF pk.l.panic # NoPanic THEN Go(pk.l, frame)
                   ELSE IF opensSingleLineComment(pk.char)
                        THEN Go(pk.l, Eating(10, "Tokenize"))
                        ELSE Go(pk.l, Ready(NewToken("SLASH", RuneToString(c))))
       ELSE IF c = 35 THEN Go(l, Eating(10, "Tokenize"))
       ELSE IF c \in {34, 39} THEN Go(NextChar(Source, l).l, Eating(c, "STRING"))
       ELSE IF isIdentifierFirst(c)
            THEN Go(l, [frame EXCEPT !.pc = "lexIdentifier", !.startIndex = l.index])
       ELSE Go(Panic(l, PanicUnknown), frame)

\* one test of the loop of eatUntil, and its body; after the loop either the
\* STRING token, or the NextChar of eatUntilAfter and the recursive call
RunEatUntil ==
  /\ frame.pc = "eatUntil"
  /\ \E l \in {Self} : \E cc \in {CurrentChar(Source, l)} :
       IF ~cc.ok THEN Go(Panic(l, PanicIndex), frame)
       ELSE IF cc.c = frame.untilChar
            THEN IF frame.then = "STRING"
                 THEN Go(l, Ready(NewToken("STRING", frame.eatenStr)))
                 ELSE Go(NextChar(Source, l).l, [frame EXCEPT !.pc = "eatWhitespace"])
       ELSE \E nc \in {NextChar(Source, l)} :
              IF nc.err THEN Go(Panic(nc.l, PanicNextChar), frame)
              ELSE Go(nc.l, [frame EXCEPT !.eatenStr = @ \o RuneToString(nc.char)])

\* the end of lexIdentifier, s being the lexer after its loop
Finish(s) ==
  \E ident \in {SubSeq(Source, frame.startIndex + 1, s.index)} :
    Go([s EXCEPT !.index = @ - 1],
       Ready([Type |-> GetKeywordKind(ident), Value |-> ident]))

\* one test of the loop of lexIdentifier, and its body
RunLexIdentifier ==
  /\ frame.pc = "lexIdentifier"
  /\ \E l \in {Self} : \E cc \in {CurrentChar(Source, l)} :
       IF ~cc.ok THEN Go(Panic(l, PanicIndex), frame)
       ELSE IF isIdentifier(cc.c)
            THEN \E nc \in {NextChar(Source, l)} :
                   IF nc.err THEN Go(Panic(nc.l, PanicNextChar), frame)
                   ELSE IF nc.l.panic # NoPanic THEN Go(nc.l, frame)
                   ELSE IF nc.char = EOF THEN Finish(nc.l)
                   ELSE Go(nc.l, frame)
       ELSE Finish(l)

\* the end of Tokenize and the test of the loop of Lex on what it returned
RunStore ==
  /\ frame.pc = "store"
  /\ \E e \in {Emit(Source, Self, frame.tok)} :
       Go(e.l, [frame EXCEPT !.pc = IF e.tok.Type # "EOF" THEN "eatWhitespace"
                                    ELSE "returned"])

NextRun ==
  \/ RunLex
  \/ RunEatWhitespace
  \/ RunSwitch
  \/ RunEatUntil
  \/ RunLexIdentifier
  \/ RunStore

\* The program runs on: a step that can be taken is taken.
SpecRun == Init /\ [][NextRun]_vars /\ WF_vars(NextRun)

---------------------------------------------------------------------------
(* Helpers of the properties.                                              *)

EOFToken == NewToken("EOF", EOFLexeme)

\* the number of EOF tokens of a token sequence
CountEOF(toks) == Cardinality({k \in DOMAIN toks : toks[k].Type = "EOF"})

\* the kind the language gives a punctuation or operator character
KindOf(c) == IF c = 47 THEN "SLASH" ELSE PunctKind[c]

---------------------------------------------------------------------------
(* C1: every token sequence returned by Lex holds exactly one EOF token,   *)
(* and that token is its last element; also for a Lex call on a lexer on   *)
(* which Tokenize or Lex was called before.                                *)
C1_LexEndsWithOneEOF ==
  (op = "Lex" /\ ret.returned) =>
    /\ Len(ret.toks) >= 1
    /\ ret.toks[Len(ret.toks)].Type = "EOF"
    /\ CountEOF(ret.toks) = 1

(* C2: once Tokenize has returned an EOF token, every further Tokenize     *)
(* call returns the token EOF "(EOF)" and leaves Tokens, index, Position   *)
(* and reachedEnd as they were before the call.                            *)
C2_EOFRepeatsWithoutEffect ==
  [][(op = "Tokenize" /\ ret.returned /\ ret.tok.Type = "EOF" /\ op' = "Tokenize")
       => /\ ret'.returned
          /\ ret'.tok = EOFToken
          /\ Tokens' = Tokens
          /\ index' = index
          /\ Position' = Position
          /\ reachedEnd' = reachedEnd]_vars

(* C3: for a source that is one punctuation or operator character, Lex on  *)
(* a new lexer returns exactly two tokens: the token of the matching kind  *)
(* whose lexeme is that character, then EOF.                               *)
C3_SinglePunctuation ==
  [][(op = "New" /\ op' = "Lex" /\ Len(Source) = 1 /\ Source[1] \in PunctChars)
       => /\ ret'.returned
          /\ ret'.toks = <<NewToken(KindOf(Source[1]), Source), EOFToken>>]_vars

\* the first newline of s at or after byte i (1-based), Len(s) + 1 without one
NextNewline(s, i) ==
  IF \E j \in i..Len(s) : s[j] = 10
  THEN CHOOSE j \in i..Len(s) : s[j] = 10 /\ \A k \in i..(j - 1) : s[k] # 10
  ELSE Len(s) + 1

\* s from byte i on with every comment removed, from its opener # or // up to
\* but not including the next newline (for sources without string literals)
RECURSIVE StripFrom(_, _)
StripFrom(s, i) ==
  IF i > Len(s) THEN <<>>
  ELSE IF s[i] = 35 \/ (s[i] = 47 /\ i < Len(s) /\ s[i + 1] = 47)
       THEN StripFrom(s, NextNewline(s, i))
       ELSE <<s[i]>> \o StripFrom(s, i + 1)

StripComments(s) == StripFrom(s, 1)

(* C4: a comment contributes no token and ends at the next newline or at   *)
(* the end of input: Lex on a source with comments returns, and returns    *)
(* the tokens Lex returns for the source with the comments removed         *)
(* (stated for the sources whose comment-free text lexes).                 *)
C4_CommentsContributeNothing ==
  [][(op = "New" /\ op' = "Lex" /\ StripComments(Source) # Source
        /\ LexNew(StripComments(Source)).returned)
       => /\ ret'.returned
          /\ ret'.toks = LexNew(StripComments(Source)).toks]_vars

Quotes == {34, 39}

\* no byte equal to q follows the byte at index a (counted from 0) of s
NoQuoteAfter(s, a, q) == \A j \in (a + 2)..Len(s) : s[j] # q

(* C5: an unterminated string is rejected.  When Tokenize meets an opening *)
(* quote and the same quote character does not occur again before the end  *)
(* of input, the call (Tokenize, or the Lex that made it) panics, returns   *)
(* nothing, and no STRING token for that literal is appended to Tokens.     *)
C5_UnterminatedStringFails ==
  [][(op' \in {"Tokenize", "Lex"} /\ char' \in Quotes
        /\ NoQuoteAfter(Source, at', char'))
       => /\ panicked' # NoPanic
          /\ ~ret'.returned
          /\ ret'.tok = ZeroToken
          /\ \A k \in DOMAIN Tokens' :
               ~(starts'[k] = at' /\ Tokens'[k].Type = "STRING")
          /\ (op' = "Tokenize" => Tokens' = Tokens)]_vars

\* an unterminated string met by Tokenize after a first token was produced
C5_Witness ==
  /\ op = "Tokenize"
  /\ char \in Quotes
  /\ NoQuoteAfter(Source, at, char)
  /\ panicked = PanicNextChar
  /\ Len(Tokens) = 1
  /\ Tokens[1].Type = "STAR"

\* a character for which Tokenize has no rule: not EOF, not a punctuation or
\* operator character, not #, not a quote, not a letter and not _
Unrecognised(c) ==
  /\ c >= 0
  /\ c # EOF
  /\ c \notin PunctChars \cup {35} \cup Quotes
  /\ ~(IsUpper(c) \/ IsLower(c) \/ c = 95)

(* C10: an unrecognised character is fatal.  When the character Tokenize   *)
(* dispatches on, after whitespace and comments are skipped, has no rule   *)
(* (a digit, for one), Tokenize panics with "Unknown lexing character",    *)
(* returns no token, and Tokens holds what it held before the call.        *)
C10_UnknownCharacterIsFatal ==
  [][(op' = "Tokenize" /\ Unrecognised(char'))
       => /\ panicked' = PanicUnknown
          /\ ~ret'.returned
          /\ ret'.tok = ZeroToken
          /\ Tokens' = Tokens]_vars

\* a digit met by the first Tokenize call after a comment was skipped
C10_Witness ==
  /\ op = "Tokenize"
  /\ char = 49
  /\ panicked = PanicUnknown
  /\ Tokens = <<>>
  /\ Source = <<35, 10, 49>>

\* the place (counted from 1) of the first byte equal to q after the byte at
\* index a (counted from 0) of s
FirstQuoteAfter(s, a, q) ==
  CHOOSE j \in (a + 2)..Len(s) :
    s[j] = q /\ \A k \in (a + 2)..(j - 1) : s[k] # q

(* C6: a terminated string literal lexes to one STRING token whose lexeme   *)
(* is exactly the bytes between the opening quote and the first later      *)
(* occurrence of the same quote character, unchanged; the closing quote    *)
(* gives no token of its own (the cursor ends one byte past it).           *)
C6_StringLexemeIsTheBytesBetweenQuotes ==
  [][(op' = "Tokenize" /\ char' \in Quotes
        /\ ~NoQuoteAfter(Source, at', char'))
       => /\ ret'.returned
          /\ ret'.tok = NewToken("STRING",
                 SubSeq(Source, at' + 2, FirstQuoteAfter(Source, at', char') - 1))
          /\ Tokens' = Append(Tokens, ret'.tok)
          /\ index' = FirstQuoteAfter(Source, at', char')]_vars

\* a letter, a digit or _
IdentChar(c) == IsUpper(c) \/ IsLower(c) \/ IsNumber(c) \/ c = 95

\* the place (counted from 1) of the last byte of the longest run of
\* identifier characters of s that starts at place a
RunEnd(s, a) ==
  CHOOSE e \in a..Len(s) :
    /\ \A k \in a..e : IdentChar(s[k])
    /\ (e < Len(s) => ~IdentChar(s[e + 1]))

ReservedWords == DOMAIN Keywords

(* C7: identifier scanning is maximal munch followed by exact keyword      *)
(* lookup.  When Tokenize dispatches on a letter or _, it returns and       *)
(* appends one token whose lexeme is the longest run of letters, digits    *)
(* and _ that starts there, also when the run ends at the last byte of the *)
(* source; its kind is the keyword kind when the lexeme is one of the 17   *)
(* reserved words, exactly and case-sensitively, and IDENT otherwise.      *)
C7_MaximalMunchThenKeywordLookup ==
  [][(op' = "Tokenize" /\ char' >= 0
        /\ (IsUpper(char') \/ IsLower(char') \/ char' = 95))
       => /\ ret'.returned
          /\ ret'.tok.Value = SubSeq(Source, at' + 1, RunEnd(Source, at' + 1))
          /\ (ret'.tok.Type = "IDENT") = (ret'.tok.Value \notin ReservedWords)
          /\ (ret'.tok.Value \in ReservedWords
                => ret'.tok.Type = Keywords[ret'.tok.Value])
          /\ Cardinality(ReservedWords) = 17
          /\ Tokens' = Append(Tokens, ret'.tok)]_vars

\* "if1" is one IDENT that ends at the last byte of the source
C7_Witness ==
  /\ op = "Tokenize"
  /\ Source = <<105, 102, 49>>
  /\ ret.returned
  /\ ret.tok = NewToken("IDENT", Source)

\* space, tab, newline, carriage return
Whitespace == {32, 9, 10, 13}

\* s with the byte w put in after its first p bytes
Insert(s, p, w) == SubSeq(s, 1, p) \o <<w>> \o SubSeq(s, p + 1, Len(s))

\* the places of s, as numbers of bytes before them, that lie before the
\* first token, between two tokens or after the last token, given the tokens
\* of s and the indexes at which they start
Boundaries(s, toks, tokenStarts) ==
  {0, Len(s)} \cup {tokenStarts[k] : k \in {j \in DOMAIN toks : toks[j].Type # "EOF"}}

(* C8: whitespace contributes no token.  For any source, a whitespace byte *)
(* put in before the first token, between two tokens or after the last     *)
(* token leaves the outcome of Lex on a new lexer as it is, and a source   *)
(* made only of whitespace lexes to the single token EOF.                  *)
C8_WhitespaceContributesNothing ==
  [][(op = "New" /\ op' = "Lex" /\ Source # <<>>)
       => /\ \A p \in Boundaries(Source, Tokens', starts') : \A w \in Whitespace :
               /\ LexNew(Insert(Source, p, w)).returned = ret'.returned
               /\ LexNew(Insert(Source, p, w)).toks = ret'.toks
          /\ (\A k \in DOMAIN Source : Source[k] \in Whitespace)
               => ret'.toks = <<EOFToken>>]_vars

(* C9: tokens come out in source order with nothing skipped or merged.     *)
(* For a source that is a concatenation of well-formed lexemes, Lex on a   *)
(* new lexer returns exactly one token per lexeme, in source order, then   *)
(* EOF; the byte after an identifier or after a closing quote is neither   *)
(* skipped nor absorbed into the token before it.                          *)
C9_OneTokenPerLexemeInOrder ==
  [][(op = "New" /\ op' = "Lex")
       => \A ls \in LexemeSeqs :
            Render(ls) = Source
              => /\ ret'.returned
                 /\ ret'.toks = [k \in 1..Len(ls) |-> ls[k].tok] \o <<EOFToken>>]_vars

(* C11: reading the source never goes out of range.  For a lexer made by   *)
(* New on any source, the empty one included, no call of CurrentChar,      *)
(* NextChar, Peek, Tokenize or Lex, in any order, reads Source outside     *)
(* 0..len(Source)-1, and CurrentChar never fails.                          *)
C11_NoReadOutOfRange ==
  /\ panicked # PanicIndex
  /\ (op = "CurrentChar" => ret.returned)

(* C12: NextChar returns the character at the cursor and then moves on by  *)
(* one.  Whenever NextChar returns without error, the rune it returns is   *)
(* what CurrentChar returned right before the call, and index is one       *)
(* greater than before; also for the call that consumes the last byte.     *)
C12_NextCharReturnsTheCurrentChar ==
  [][(op' = "NextChar" /\ ret'.returned /\ ~ret'.err /\ CurrentChar(Source, Self).ok)
       => /\ ret'.c = CurrentChar(Source, Self).c
          /\ index' = index + 1]_vars

(* C13: NextChar reports the end of input once silently and as an error    *)
(* afterwards.  It returns an error exactly when, before the call,         *)
(* reachedEnd is true and index+1 >= sourceLength; it then returns EOF and *)
(* leaves index, Position, reachedEnd and Tokens as they were.  The first  *)
(* NextChar call made at the end of input returns no error.                *)
C13_NextCharErrorsFromTheSecondTime ==
  [][(op' = "NextChar")
       => /\ ret'.returned
          /\ ret'.err = (reachedEnd /\ index + 1 >= sourceLength)
          /\ (ret'.err =>
                /\ ret'.c = EOF
                /\ index' = index
                /\ Position' = Position
                /\ reachedEnd' = reachedEnd
                /\ Tokens' = Tokens)
          /\ ((~reachedEnd /\ index + 1 >= sourceLength) =>
                /\ ~ret'.err
                /\ reachedEnd')]_vars

\* a NextChar call that returned the error, after a first one at the end of
\* input that did not
C13_Witness ==
  /\ op = "NextChar"
  /\ ret.returned
  /\ ret.err
  /\ ret.c = EOF
  /\ Source = <<97, 42>>
  /\ index = 2
  /\ Tokens = <<>>

\* the number of bytes of s equal to '\n'
RECURSIVE CountNewlines(_)
CountNewlines(s) ==
  IF s = <<>> THEN 0
  ELSE (IF Head(s) = 10 THEN 1 ELSE 0) + CountNewlines(Tail(s))

\* the number of bytes of s after its last '\n'
RECURSIVE SinceLastNewline(_)
SinceLastNewline(s) ==
  IF s = <<>> \/ s[Len(s)] = 10 THEN 0
  ELSE 1 + SinceLastNewline(SubSeq(s, 1, Len(s) - 1))

\* the bytes consumed so far: all of them once the end is reached
ConsumedBytes ==
  IF reachedEnd \/ index >= Len(Source) THEN Source ELSE SubSeq(Source, 1, index)

(* C14: Position tracks the consumed bytes exactly.  In every state line   *)
(* is the number of '\n' bytes consumed so far, a newline that is the last *)
(* byte included, and lineChar is 0 right after a newline and otherwise    *)
(* the number of non-newline bytes consumed since the last newline, each   *)
(* byte counted once.                                                      *)
C14_PositionCountsConsumedBytes ==
  (panicked = NoPanic /\ Source # <<>>) =>
    /\ Position.line = CountNewlines(ConsumedBytes)
    /\ Position.lineChar = SinceLastNewline(ConsumedBytes)

(* C15: reachedEnd is permanent.  Once it is true it is true in every      *)
(* later state, and a CurrentChar call made then returns EOF without       *)
(* reading Source.                                                         *)
C15_ReachedEndIsPermanent ==
  [][reachedEnd
       => /\ reachedEnd'
          /\ (op' = "CurrentChar" =>
                /\ ret'.returned
                /\ ret'.c = EOF
                /\ panicked' = NoPanic)]_vars

\* CurrentChar answered EOF after the end was reached, with the cursor still
\* on a source byte that is not the sentinel (an identifier ending the source)
C15_Witness ==
  /\ op = "CurrentChar"
  /\ reachedEnd
  /\ ret.returned
  /\ ret.c = EOF
  /\ index < Len(Source)
  /\ Source[index + 1] # EOF
  /\ Tokens # <<>>

(* C16: every Tokenize call that returns has appended exactly one token to *)
(* Tokens, the token it returns, as the new last element, and has left the *)
(* earlier elements as they were; also when it skipped comments first.     *)
C16_TokenizeAppendsItsToken ==
  [][(op' = "Tokenize" /\ ret'.returned)
       => Tokens' = Append(Tokens, ret'.tok)]_vars

\* a second Tokenize call that skipped a comment before its token
C16_Witness ==
  /\ op = "Tokenize"
  /\ ret.returned
  /\ Source = <<33, 35, 10, 33>>
  /\ Len(Tokens) = 2
  /\ starts = <<0, 3>>
  /\ ret.tok = Tokens[2]

\* the index one past the last source byte of the token that starts at
\* index a of s with the character c
TokenEnd(s, a, c) ==
  IF c \in Quotes THEN FirstQuoteAfter(s, a, c)
  ELSE IF isIdentifierFirst(c) THEN RunEnd(s, a + 1)
  ELSE a + 1

(* C17: after Tokenize returns a token that is not EOF, the cursor is one  *)
(* past the last source byte of that token: index is the start index of    *)
(* the token's text plus the length of that text (one past the closing     *)
(* quote of a string, one past the last character of an identifier), also  *)
(* when the token ends at the last byte of the source.                     *)
C17_CursorOnePastTheToken ==
  [][(op' = "Tokenize" /\ ret'.returned /\ ret'.tok.Type # "EOF")
       => index' = TokenEnd(Source, at', char')]_vars

(* C18: a '/' followed by '*' does not open a comment.  Tokenize returns a *)
(* SLASH token for it and consumes only that one byte, and the next token  *)
(* is STAR.                                                                *)
C18_SlashStarIsTwoTokens ==
  [][/\ (op' = "Tokenize" /\ char' = 47 /\ at' + 2 <= Len(Source)
           /\ Source[at' + 2] = 42)
          => /\ ret'.returned
             /\ ret'.tok = NewToken("SLASH", <<47>>)
             /\ Tokens' = Append(Tokens, ret'.tok)
             /\ index' = at' + 1
     /\ (op = "Tokenize" /\ ret.returned /\ ret.tok.Type = "SLASH"
           /\ index = at + 1 /\ index < Len(Source) /\ Source[index + 1] = 42
           /\ op' = "Tokenize")
          => /\ ret'.returned
             /\ ret'.tok = NewToken("STAR", <<42>>)
             /\ at' = at + 1
             /\ Tokens' = Append(Tokens, ret'.tok)]_vars

\* the two Tokenize calls on "/*" done, the second at the last byte
C18_Witness ==
  /\ op = "Tokenize"
  /\ ret.returned
  /\ Source = <<47, 42>>
  /\ Len(Tokens) = 2
  /\ Tokens[1].Type = "SLASH"
  /\ Tokens[2].Type = "STAR"
  /\ starts = <<0, 1>>
  /\ index = 2

(* C20: Tokenize returns EOF only at the real end of input.  Whenever a    *)
(* Tokenize call returns an EOF token (and so whenever Lex returns),       *)
(* reachedEnd is true and no byte of the source at or after the cursor is  *)
(* left untokenized: a source byte 0x00 does not end the token stream.     *)
C20_EOFOnlyAtTheEndOfInput ==
  (ret.returned /\ (op = "Lex" \/ (op = "Tokenize" /\ ret.tok.Type = "EOF")))
    => /\ reachedEnd
       /\ index >= Len(Source) - 1

\* the Lex call run step by step is over: it returned a token list whose
\* last token is EOF, or it panicked
RunDone ==
  \/ frame.pc = "panicked" /\ panicked # NoPanic
  \/ /\ frame.pc = "returned"
     /\ ret.returned
     /\ ret.toks # <<>>
     /\ ret.toks[Len(ret.toks)].Type = "EOF"

====
